---- MODULE Spec2Model ----
(***************************************************************************)
(* KFE codec: the container codec and capture (kfe_codec.py) and the       *)
(* packet framer and loopback loop (kfe_loopback.py).                      *)
(*                                                                         *)
(* Files and buffers are sequences of bytes (0..255).  The frame geometry  *)
(* is scaled down (WIDTH x HEIGHT pixels of CHANNELS bytes) so that whole  *)
(* frames fit in a state; every formula is stated in terms of FRAME_SIZE.  *)
(***************************************************************************)
EXTENDS Integers, Sequences, FiniteSets, TLC

\* ------------------------------------------------------------------------
\* Geometry and header constants (kfe_codec.py 17-29)
\* ------------------------------------------------------------------------

\* scaled down from 3840
WIDTH == 2

\* scaled down from 2160
HEIGHT == 1

CHANNELS == 3

FRAME_SIZE == WIDTH * HEIGHT * CHANNELS

\* struct.calcsize('<4sIIIQI'): no alignment padding with '<'
HEADER_SIZE == 4 + 4 + 4 + 4 + 8 + 4

\* b'KFE0'
MAGIC == <<75, 70, 69, 48>>

\* ------------------------------------------------------------------------
\* Bounds of the model
\* ------------------------------------------------------------------------

\* payloads have at most MaxFrames * FRAME_SIZE bytes
MaxFrames == 2

\* byte patterns 0..MaxPattern fill payloads, packets and buffers
MaxPattern == 2

\* ------------------------------------------------------------------------
\* Bytes
\* ------------------------------------------------------------------------

Min(a, b) == IF a <= b THEN a ELSE b

\* bytes(k)
Zeros(k) == [i \in 1..k |-> 0]

\* data[a:b] with 0 <= a, Python slice semantics (clamped to the length)
Slice(data, a, b) == SubSeq(data, a + 1, Min(b, Len(data)))

\* stream.read(n) at offset pos
ReadAt(data, pos, n) == Slice(data, pos, pos + n)

\* struct.pack('<I', n) / '<Q': k little-endian bytes of n
RECURSIVE PackLE(_, _)
PackLE(n, k) == IF k = 0 THEN <<>> ELSE <<n % 256>> \o PackLE(n \div 256, k - 1)

\* struct.unpack('<I', s)[0] / '<Q'
RECURSIVE UnpackLE(_)
UnpackLE(s) == IF s = <<>> THEN 0 ELSE s[1] + 256 * UnpackLE(Tail(s))

\* the i-th byte (1-based) of the input pattern p: p = 0 is all zero, the
\* others mix zero and non-zero bytes
PatternByte(p, i) == (p * i * 64) % 256

PatternBytes(n, p) == [i \in 1..n |-> PatternByte(p, i)]

Patterns == 0..MaxPattern

\* ------------------------------------------------------------------------
\* Packet framer (kfe_loopback.py 24-62)
\* ------------------------------------------------------------------------

PacketTooLarge == "Packet too large for a single frame"
InvalidFrameLength == "Invalid frame length"
CorruptedFrameHeader == "Corrupted frame header"

Raise(msg) == [ok |-> FALSE, err |-> msg, val |-> <<>>]
Return(v) == [ok |-> TRUE, err |-> "", val |-> v]

\* mutant: the padding forgets the 4 prefix bytes
packet_to_frame_LongPadding(packet) ==
    IF Len(packet) > FRAME_SIZE - 4
    THEN Raise(PacketTooLarge)
    ELSE Return(PackLE(Len(packet), 4) \o packet \o Zeros(FRAME_SIZE - Len(packet)))

\* mutant: the size limit forgets the 4 prefix bytes
packet_to_frame_LooseLimit(packet) ==
    IF Len(packet) > FRAME_SIZE
    THEN Raise(PacketTooLarge)
    ELSE Return(PackLE(Len(packet), 4) \o packet \o Zeros(FRAME_SIZE - 4 - Len(packet)))

packet_to_frame(packet) ==
    IF Len(packet) > FRAME_SIZE - 4
    THEN Raise(PacketTooLarge)
    ELSE LET header == PackLE(Len(packet), 4)
             padding == FRAME_SIZE - 4 - Len(packet)
         IN  Return(header \o packet \o Zeros(padding))

\* mutant: the length prefix is trusted
frame_to_packet_TrustPrefix(frame) ==
    IF Len(frame) # FRAME_SIZE
    THEN Raise(InvalidFrameLength)
    ELSE Return(Slice(frame, 4, 4 + UnpackLE(Slice(frame, 0, 4))))

frame_to_packet(frame) ==
    IF Len(frame) # FRAME_SIZE
    THEN Raise(InvalidFrameLength)
    ELSE LET length == UnpackLE(Slice(frame, 0, 4))
         IN  IF length > FRAME_SIZE - 4
             THEN Raise(CorruptedFrameHeader)
             ELSE Return(Slice(frame, 4, 4 + length))

\* ------------------------------------------------------------------------
\* Container header (kfe_codec.py 24-59)
\* ------------------------------------------------------------------------

IncompleteHeader == "Incomplete KFE header"
InvalidContainer == "Invalid KFE file"
IncompleteFrame == "Incomplete frame data"
SizeMismatch == "Data size mismatch"

\* struct.pack(HEADER_FORMAT, magic, width, height, channels, data_size, frame_count)
PackHeader(magic, width, height, channels, size, count) ==
    magic \o PackLE(width, 4) \o PackLE(height, 4) \o PackLE(channels, 4)
          \o PackLE(size, 8) \o PackLE(count, 4)

\* the bytes _write_header writes
write_header(size, count) == PackHeader(MAGIC, WIDTH, HEIGHT, CHANNELS, size, count)

\* _read_header on a stream positioned at 0: val = <<data_size, frame_count>>
read_header(data) ==
    LET header_data == ReadAt(data, 0, HEADER_SIZE)
    IN  IF Len(header_data) # HEADER_SIZE
        THEN Raise(IncompleteHeader)
        ELSE LET magic    == Slice(header_data, 0, 4)
                 width    == UnpackLE(Slice(header_data, 4, 8))
                 height   == UnpackLE(Slice(header_data, 8, 12))
                 channels == UnpackLE(Slice(header_data, 12, 16))
                 size     == UnpackLE(Slice(header_data, 16, 24))
                 count    == UnpackLE(Slice(header_data, 24, 28))
             IN  IF \/ magic # MAGIC
                    \/ width # WIDTH
                    \/ height # HEIGHT
                    \/ channels # CHANNELS
                 THEN Raise(InvalidContainer)
                 ELSE Return(<<size, count>>)

\* mutant: the frame count is rounded down
FloorDiv(a, b) == a \div b

\* math.ceil(a / b) for a >= 0, b > 0
CeilDiv(a, b) == (a + b - 1) \div b

\* ------------------------------------------------------------------------
\* State
\* ------------------------------------------------------------------------

VARIABLES
    \* packet framer
    fr_pc,        \* "start", "packed", "unpacked", "idle"
    fr_kind,      \* "packet": fr_in is a packet; "buffer": fr_in is a frame buffer
    fr_in,        \* the input bytes
    fr_packed,    \* result of packet_to_frame(fr_in)
    fr_unpacked,  \* result of frame_to_packet
    \* container codec
    c_pc,         \* position in encode / decode
    inFile,       \* bytes of the encode input file
    kfeFile,      \* the container file: [exists, bytes]
    outFile,      \* the decode output file: [exists, bytes]
    outBefore,    \* outFile as it was before decode was called
    encoded,      \* the container as encode left it
    tamper,       \* what was done to the container after encode
    pos,          \* read offset of the open input stream
    data_size,
    frame_count,
    remaining,
    frames_read,  \* iterations of decode's for loop completed
    c_err,        \* "" or the message of the ValueError raised
    \* run_loopback: locals
    l_pc,         \* position in run_loopback
    packets,      \* the packets argument (packet limit)
    processed,
    rtts,
    bytes_total,
    start_time,
    send_ts,
    data,         \* the packet os_read returned
    frame_bytes,  \* packet_to_frame(data)
    received,     \* received.tobytes() after resize and cvtColor
    packet,       \* frame_to_packet(received.tobytes())
    l_err,        \* "" or the exception propagating out of run_loopback
    \* run_loopback: the endpoints and the clock
    now,          \* what time.time() returns
    tun,          \* transport endpoint: "unopened", "open", "closed"
    tun_closes,   \* calls of os_close(tun_fd)
    cap,          \* capture endpoint: "unopened", "open", "released"
    cap_releases, \* calls of cap.release()
    late_use,     \* an endpoint was read or written while not open
    reads,        \* packets os_read returned
    skips,        \* iterations cap.read() ended with no frame
    shown,        \* the array last passed to cv2.imshow
    written,      \* the packets passed to os_write, in order
    printed,      \* the summaries printed, in order
    \* run_loopback: the call and the kind of run
    periodic,     \* the periodic keyword of the call: "absent", "on", "off"
    metered,      \* TRUE: the source is finite, the clock and counters run
    script,       \* readings a stubbed clock still has to return, or <<>>
    \* capture: locals, the device and the output path (the file is kfeFile)
    k_pc,         \* position in capture
    k_frames,     \* the frames argument
    captured,
    k_frame,      \* the array cap.read() returned last
    k_cap,        \* capture device: "unopened", "open", "released"
    k_releases,   \* calls of cap.release()
    k_reads,      \* calls of cap.read() that returned
    k_err,        \* "" or the exception propagating out of capture
    kfeBefore     \* the output path as it was before capture was called

framerVars == <<fr_pc, fr_kind, fr_in, fr_packed, fr_unpacked>>
codecVars == <<c_pc, inFile, kfeFile, outFile, outBefore, encoded, tamper, pos,
               data_size, frame_count, remaining, frames_read, c_err>>
loopVars == <<l_pc, packets, processed, rtts, bytes_total, start_time, send_ts,
              data, frame_bytes, received, packet, l_err, now, tun, tun_closes,
              cap, cap_releases, late_use, reads, skips, shown, written, printed,
              periodic, metered, script>>
captureVars == <<k_pc, k_frames, captured, k_frame, k_cap, k_releases, k_reads,
                 k_err, kfeBefore>>
vars == <<framerVars, codecVars, loopVars, captureVars>>

NoFile == [exists |-> FALSE, bytes |-> <<>>]
File(b) == [exists |-> TRUE, bytes |-> b]

NoResult == [ok |-> FALSE, err |-> "not called", val |-> <<>>]

FramerIdle ==
    /\ fr_pc = "idle"
    /\ fr_kind = "packet"
    /\ fr_in = <<>>
    /\ fr_packed = NoResult
    /\ fr_unpacked = NoResult

CodecIdle ==
    /\ c_pc = "idle"
    /\ inFile = <<>>
    /\ kfeFile = NoFile
    /\ outFile = NoFile
    /\ outBefore = NoFile
    /\ encoded = <<>>
    /\ tamper = "none"
    /\ pos = 0
    /\ data_size = 0
    /\ frame_count = 0
    /\ remaining = 0
    /\ frames_read = 0
    /\ c_err = ""

LoopIdle ==
    /\ l_pc = "idle"
    /\ packets = 0
    /\ processed = 0
    /\ rtts = <<>>
    /\ bytes_total = 0
    /\ start_time = 0
    /\ send_ts = 0
    /\ data = <<>>
    /\ frame_bytes = <<>>
    /\ received = <<>>
    /\ packet = <<>>
    /\ l_err = ""
    /\ now = 0
    /\ tun = "unopened"
    /\ tun_closes = 0
    /\ cap = "unopened"
    /\ cap_releases = 0
    /\ late_use = FALSE
    /\ reads = 0
    /\ skips = 0
    /\ shown = <<>>
    /\ written = <<>>
    /\ printed = <<>>
    /\ periodic = "absent"
    /\ metered = TRUE
    /\ script = <<>>

CaptureIdle ==
    /\ k_pc = "idle"
    /\ k_frames = 0
    /\ captured = 0
    /\ k_frame = <<>>
    /\ k_cap = "unopened"
    /\ k_releases = 0
    /\ k_reads = 0
    /\ k_err = ""
    /\ kfeBefore = NoFile

\* ------------------------------------------------------------------------
\* Packet framer runs: pack a packet and unpack the frame, or unpack a buffer
\* ------------------------------------------------------------------------

\* packets of every length from 0 to past FRAME_SIZE
Packets == {PatternBytes(n, p) : n \in 0..(FRAME_SIZE + 1), p \in Patterns}

\* values of the low byte of a buffer's length prefix
PrefixLow == {0, 1, FRAME_SIZE - 5, FRAME_SIZE - 4, FRAME_SIZE - 3, FRAME_SIZE, 255}

\* buffers of every length up to FRAME_SIZE + 1 with a chosen 4-byte prefix
Buffer(n, b1, b2, b3, b4, p) ==
    [i \in 1..n |-> IF i <= 4 THEN <<b1, b2, b3, b4>>[i] ELSE PatternByte(p, i)]

Buffers ==
    {Buffer(n, b1, b2, b3, b4, p) :
        n \in 0..(FRAME_SIZE + 1), b1 \in PrefixLow,
        b2 \in {0, 1}, b3 \in {0, 1}, b4 \in {0, 1}, p \in Patterns}

FramerInit ==
    /\ fr_pc = "start"
    /\ \/ fr_kind = "packet" /\ fr_in \in Packets
       \/ fr_kind = "buffer" /\ fr_in \in Buffers
    /\ fr_packed = NoResult
    /\ fr_unpacked = NoResult
    /\ CodecIdle
    /\ LoopIdle
    /\ CaptureIdle

\* frame = packet_to_frame(data)
Pack ==
    /\ fr_pc = "start"
    /\ fr_kind = "packet"
    /\ fr_packed' = packet_to_frame(fr_in)
    /\ fr_pc' = "packed"
    /\ UNCHANGED <<fr_kind, fr_in, fr_unpacked, codecVars, loopVars, captureVars>>

\* frame_to_packet(frame) on the frame packet_to_frame returned
UnpackPacked ==
    /\ fr_pc = "packed"
    /\ fr_packed.ok
    /\ fr_unpacked' = frame_to_packet(fr_packed.val)
    /\ fr_pc' = "unpacked"
    /\ UNCHANGED <<fr_kind, fr_in, fr_packed, codecVars, loopVars, captureVars>>

\* frame_to_packet(frame) on an arbitrary buffer
UnpackBuffer ==
    /\ fr_pc = "start"
    /\ fr_kind = "buffer"
    /\ fr_unpacked' = frame_to_packet(fr_in)
    /\ fr_pc' = "unpacked"
    /\ UNCHANGED <<fr_kind, fr_in, fr_packed, codecVars, loopVars, captureVars>>

FramerNext == Pack \/ UnpackPacked \/ UnpackBuffer

SpecFramer == FramerInit /\ [][FramerNext]_vars

\* ------------------------------------------------------------------------
\* Container codec runs (kfe_codec.py 62-102): encode inFile into kfeFile,
\* optionally damage kfeFile, then decode kfeFile into outFile
\* ------------------------------------------------------------------------

Payloads == {PatternBytes(n, p) : n \in 0..(MaxFrames * FRAME_SIZE), p \in Patterns}

\* the output path of decode is absent or holds an older file
OldOutputs == {NoFile, File(<<1, 2, 3>>)}

CodecInit ==
    /\ c_pc = "encode"
    /\ inFile \in Payloads
    /\ kfeFile = NoFile
    /\ outFile \in OldOutputs
    /\ outBefore = outFile
    /\ encoded = <<>>
    /\ tamper = "none"
    /\ pos = 0
    /\ data_size = 0
    /\ frame_count = 0
    /\ remaining = 0
    /\ frames_read = 0
    /\ c_err = ""
    /\ FramerIdle
    /\ LoopIdle
    /\ CaptureIdle

\* encode, lines 67-72: size, frame count, open both files, write the header
EncodeOpen ==
    /\ c_pc = "encode"
    /\ data_size' = Len(inFile)
    /\ frame_count' = CeilDiv(Len(inFile), FRAME_SIZE)
    /\ kfeFile' = File(write_header(data_size', frame_count'))
    /\ pos' = 0
    /\ c_pc' = "enc_loop"
    /\ UNCHANGED <<inFile, outFile, outBefore, encoded, tamper, remaining,
                   frames_read, c_err, framerVars, captureVars, loopVars>>

\* the frame encode writes for a non-empty chunk, lines 77-79
PadChunk(chunk) ==
    IF Len(chunk) < FRAME_SIZE THEN chunk \o Zeros(FRAME_SIZE - Len(chunk)) ELSE chunk

\* encode, lines 73-79: one iteration of the chunk loop, or the break
EncodeChunk ==
    /\ c_pc = "enc_loop"
    /\ LET chunk == ReadAt(inFile, pos, FRAME_SIZE)
       IN  IF chunk = <<>>
           THEN /\ c_pc' = "encoded"
                /\ encoded' = kfeFile.bytes
                /\ UNCHANGED <<kfeFile, pos>>
           ELSE /\ kfeFile' = File(kfeFile.bytes \o PadChunk(chunk))
                /\ pos' = pos + Len(chunk)
                /\ UNCHANGED <<c_pc, encoded>>
    /\ UNCHANGED <<inFile, outFile, outBefore, tamper, data_size, frame_count,
                   remaining, frames_read, c_err, framerVars, captureVars, loopVars>>

\* the container loses its tail: every proper prefix, header cuts included
Truncate ==
    /\ c_pc = "encoded"
    /\ tamper = "none"
    /\ \E k \in 0..(Len(kfeFile.bytes) - 1) :
          kfeFile' = File(SubSeq(kfeFile.bytes, 1, k))
    /\ tamper' = "truncated"
    /\ UNCHANGED <<c_pc, inFile, outFile, outBefore, encoded, pos, data_size,
                   frame_count, remaining, frames_read, c_err, framerVars, captureVars, loopVars>>

WithHeader(header) ==
    File(header \o SubSeq(kfeFile.bytes, HEADER_SIZE + 1, Len(kfeFile.bytes)))

\* headers that differ from the written one in magic or in one geometry field
BadGeometryHeaders ==
    {PackHeader(<<75, 70, 69, 49>>, WIDTH, HEIGHT, CHANNELS, data_size, frame_count),
     PackHeader(<<107, 70, 69, 48>>, WIDTH, HEIGHT, CHANNELS, data_size, frame_count),
     PackHeader(MAGIC, WIDTH + 1, HEIGHT, CHANNELS, data_size, frame_count),
     PackHeader(MAGIC, WIDTH + 256, HEIGHT, CHANNELS, data_size, frame_count),
     PackHeader(MAGIC, WIDTH, HEIGHT + 1, CHANNELS, data_size, frame_count),
     PackHeader(MAGIC, HEIGHT, WIDTH, CHANNELS, data_size, frame_count),
     PackHeader(MAGIC, WIDTH, HEIGHT, CHANNELS + 1, data_size, frame_count),
     PackHeader(MAGIC, WIDTH, HEIGHT, 0, data_size, frame_count)}
    \ {write_header(data_size, frame_count)}

\* the header's magic or geometry is overwritten
BadGeometry ==
    /\ c_pc = "encoded"
    /\ tamper = "none"
    /\ \E h \in BadGeometryHeaders : kfeFile' = WithHeader(h)
    /\ tamper' = "geometry"
    /\ UNCHANGED <<c_pc, inFile, outFile, outBefore, encoded, pos, data_size,
                   frame_count, remaining, frames_read, c_err, framerVars, captureVars, loopVars>>

\* payload sizes a rewritten header may declare
DeclaredSizes ==
    {k * FRAME_SIZE + d : k \in 0..(MaxFrames + 1), d \in {0, 1, FRAME_SIZE - 1}}

\* the header's data_size and frame_count are overwritten
BadCounts ==
    /\ c_pc = "encoded"
    /\ tamper = "none"
    /\ \E size \in DeclaredSizes, count \in 0..(MaxFrames + 1) :
          /\ <<size, count>> # <<data_size, frame_count>>
          /\ kfeFile' = WithHeader(write_header(size, count))
    /\ tamper' = "counts"
    /\ UNCHANGED <<c_pc, inFile, outFile, outBefore, encoded, pos, data_size,
                   frame_count, remaining, frames_read, c_err, framerVars, captureVars, loopVars>>

\* the padding of the last frame is overwritten with a byte that occurs in
\* no payload of Payloads
BadPadding ==
    /\ c_pc = "encoded"
    /\ tamper = "none"
    /\ data_size % FRAME_SIZE # 0
    /\ kfeFile' = File([i \in 1..Len(kfeFile.bytes) |->
                          IF i > HEADER_SIZE + data_size
                          THEN 255
                          ELSE kfeFile.bytes[i]])
    /\ tamper' = "padding"
    /\ UNCHANGED <<c_pc, inFile, outFile, outBefore, encoded, pos, data_size,
                   frame_count, remaining, frames_read, c_err, framerVars, captureVars, loopVars>>

\* mutant: the output is opened before the header is validated
DecodeHeader_OpenFirst ==
    /\ c_pc = "encoded"
    /\ outFile' = File(<<>>)
    /\ LET h == read_header(kfeFile.bytes)
       IN  IF h.ok
           THEN /\ data_size' = h.val[1]
                /\ frame_count' = h.val[2]
                /\ remaining' = h.val[1]
                /\ pos' = HEADER_SIZE
                /\ c_pc' = "dec_open"
                /\ UNCHANGED c_err
           ELSE /\ c_err' = h.err
                /\ c_pc' = "failed"
                /\ UNCHANGED <<data_size, frame_count, remaining, pos>>
    /\ frames_read' = 0
    /\ UNCHANGED <<inFile, kfeFile, outBefore, encoded, tamper, framerVars, captureVars, loopVars>>

\* decode, lines 88-91: open the input and read the header
DecodeHeader ==
    /\ c_pc = "encoded"
    /\ LET h == read_header(kfeFile.bytes)
       IN  IF h.ok
           THEN /\ data_size' = h.val[1]
                /\ frame_count' = h.val[2]
                /\ remaining' = h.val[1]
                /\ pos' = HEADER_SIZE
                /\ c_pc' = "dec_open"
                /\ UNCHANGED c_err
           ELSE /\ c_err' = h.err
                /\ c_pc' = "failed"
                /\ UNCHANGED <<data_size, frame_count, remaining, pos>>
    /\ frames_read' = 0
    /\ UNCHANGED <<inFile, kfeFile, outFile, outBefore, encoded, tamper, framerVars, captureVars, loopVars>>

\* decode, line 92: open(output_path, 'wb') creates or truncates the output
DecodeOpenOutput ==
    /\ c_pc = "dec_open"
    /\ outFile' = File(<<>>)
    /\ c_pc' = "dec_loop"
    /\ UNCHANGED <<inFile, kfeFile, outBefore, encoded, tamper, pos, data_size,
                   frame_count, remaining, frames_read, c_err, framerVars, captureVars, loopVars>>

\* mutant: the whole frame is written, padding included
ToWrite_WholeFrame(frame, rem) == frame

\* mutant: a frame that is only partly owed is not written
ToWrite_SkipsPartial(frame, rem) == IF rem >= FRAME_SIZE THEN frame ELSE <<>>

\* mutant: only an empty read counts as a missing frame
FrameShort_EmptyOnly(frame) == Len(frame) = 0

\* decode, line 95: the frame read is incomplete
FrameShort(frame) == Len(frame) < FRAME_SIZE

\* decode, line 97: the part of a frame that is written
ToWrite(frame, rem) == IF rem >= FRAME_SIZE THEN frame ELSE Slice(frame, 0, rem)

\* mutant: the frame loop stops quietly at the end of the file
DecodeFrame_StopAtEof ==
    /\ c_pc = "dec_loop"
    /\ frames_read < frame_count
    /\ LET frame == ReadAt(kfeFile.bytes, pos, FRAME_SIZE)
           to_write == ToWrite(frame, remaining)
       IN  IF FrameShort(frame)
           THEN /\ frames_read' = frame_count
                /\ UNCHANGED <<outFile, remaining, c_err, c_pc, pos>>
           ELSE /\ outFile' = File(outFile.bytes \o to_write)
                /\ remaining' = remaining - Len(to_write)
                /\ frames_read' = frames_read + 1
                /\ pos' = pos + Len(frame)
                /\ UNCHANGED <<c_err, c_pc>>
    /\ UNCHANGED <<inFile, kfeFile, outBefore, encoded, tamper, data_size,
                   frame_count, framerVars, captureVars, loopVars>>

\* decode, lines 93-99: one iteration of the frame loop
DecodeFrame ==
    /\ c_pc = "dec_loop"
    /\ frames_read < frame_count
    /\ LET frame == ReadAt(kfeFile.bytes, pos, FRAME_SIZE)
           to_write == ToWrite(frame, remaining)
       IN  IF FrameShort(frame)
           THEN /\ c_err' = IncompleteFrame
                /\ c_pc' = "failed"
                /\ UNCHANGED <<outFile, remaining, frames_read, pos>>
           ELSE /\ outFile' = File(outFile.bytes \o to_write)
                /\ remaining' = remaining - Len(to_write)
                /\ frames_read' = frames_read + 1
                /\ pos' = pos + Len(frame)
                /\ UNCHANGED <<c_err, c_pc>>
    /\ UNCHANGED <<inFile, kfeFile, outBefore, encoded, tamper, data_size,
                   frame_count, framerVars, captureVars, loopVars>>

\* mutant: the payload size is not checked after the loop
DecodeEnd_NoCheck ==
    /\ c_pc = "dec_loop"
    /\ frames_read >= frame_count
    /\ c_pc' = "decoded"
    /\ UNCHANGED <<inFile, kfeFile, outFile, outBefore, encoded, tamper, pos,
                   data_size, frame_count, remaining, frames_read, c_err,
                   framerVars, captureVars, loopVars>>

\* decode, lines 100-102: after the loop
DecodeEnd ==
    /\ c_pc = "dec_loop"
    /\ frames_read >= frame_count
    /\ IF remaining # 0
       THEN c_err' = SizeMismatch /\ c_pc' = "failed"
       ELSE c_pc' = "decoded" /\ UNCHANGED c_err
    /\ UNCHANGED <<inFile, kfeFile, outFile, outBefore, encoded, tamper, pos,
                   data_size, frame_count, remaining, frames_read, framerVars, captureVars, loopVars>>

CodecNext ==
    \/ EncodeOpen
    \/ EncodeChunk
    \/ Truncate
    \/ BadGeometry
    \/ BadCounts
    \/ BadPadding
    \/ DecodeHeader
    \/ DecodeOpenOutput
    \/ DecodeFrame
    \/ DecodeEnd

SpecCodec == CodecInit /\ [][CodecNext]_vars

\* ------------------------------------------------------------------------
\* Loopback loop (kfe_loopback.py 71-174).  The transport endpoint, the
\* capture device, the display and the clock are the environment: os_read
\* delivers any packet of SourcePackets, cap.read() delivers no frame or any
\* array of CapturedArrays, each of these two blocking calls lets the clock
\* advance, and every call into the environment inside the try block may
\* raise.  cap.release(), cv2.destroyAllWindows() and os_close are taken
\* not to raise.
\* ------------------------------------------------------------------------

\* at most MaxPackets packets are asked for
MaxPackets == 2

\* os_read delivers at most MaxIterations packets
MaxIterations == 3

PacketLimits == (0 - 1)..MaxPackets

\* seconds a blocking call may take
Ticks == {0, 1}

\* packets the transport source delivers: short, largest that fits, too large
SourcePackets ==
    {PatternBytes(1, 1), PatternBytes(FRAME_SIZE - 4, 1), PatternBytes(FRAME_SIZE - 3, 1)}

\* cv2.cvtColor(arr, COLOR_RGB2BGR) and COLOR_BGR2RGB on the flat bytes: the
\* first and third byte of every complete pixel change places
SwapRB(buf) ==
    [i \in 1..Len(buf) |->
        IF ((i - 1) \div CHANNELS) * CHANNELS + CHANNELS > Len(buf)
        THEN buf[i]
        ELSE LET k == (i - 1) % CHANNELS
             IN  IF k = 0 THEN buf[i + 2] ELSE IF k = 2 THEN buf[i - 2] ELSE buf[i]]

\* arrays cap.read() may deliver, already WIDTH x HEIGHT so that cv2.resize
\* leaves them as they are: the array on display, the picture of another
\* packet, a picture with a corrupted length prefix, and (from a capture
\* stub that ignores the geometry) an array one byte short
CapturedArrays ==
    {shown,
     SwapRB(packet_to_frame(<<7>>).val),
     SwapRB(Buffer(FRAME_SIZE, 255, 0, 0, 0, 1)),
     Zeros(FRAME_SIZE - 1)}

OSError == "OSError"
CvError == "cv2.error"
DeviceUnavailable == "Unable to open capture device"

RECURSIVE SeqSum(_)
SeqSum(s) == IF s = <<>> THEN 0 ELSE s[1] + SeqSum(Tail(s))

SeqMin(s) == CHOOSE x \in {s[i] : i \in 1..Len(s)} : \A i \in 1..Len(s) : x <= s[i]
SeqMax(s) == CHOOSE x \in {s[i] : i \in 1..Len(s)} : \A i \in 1..Len(s) : x >= s[i]

\* readings of the stubbed clock of test_run_loopback_metrics, in tenths of
\* a second; the stub keeps returning the last one
ClockScripts == {<<>>, <<0, 10, 12, 20, 25, 30>>}

\* time.time()
TimeNow == IF script = <<>> THEN now ELSE Head(script)

\* the stubbed clock after a reading
AfterReading == IF Len(script) > 1 THEN Tail(script) ELSE script

\* seconds a blocking call takes in this run
BlockTicks == IF metered /\ script = <<>> THEN Ticks ELSE {0}

\* a counter of the environment; it stops at MaxIterations in a run of
\* unbounded length
Counted(x) == IF metered THEN x + 1 ELSE Min(x + 1, MaxIterations)

\* the state in which run_loopback is called
CallState ==
    /\ l_pc = "start"
    /\ packets \in PacketLimits
    /\ processed = 0
    /\ rtts = <<>>
    /\ bytes_total = 0
    /\ start_time = 0
    /\ send_ts = 0
    /\ data = <<>>
    /\ frame_bytes = <<>>
    /\ received = <<>>
    /\ packet = <<>>
    /\ l_err = ""
    /\ now = 7
    /\ tun = "unopened"
    /\ tun_closes = 0
    /\ cap = "unopened"
    /\ cap_releases = 0
    /\ late_use = FALSE
    /\ reads = 0
    /\ skips = 0
    /\ shown = <<>>
    /\ written = <<>>
    /\ printed = <<>>
    /\ FramerIdle
    /\ CodecIdle
    /\ CaptureIdle

LoopInit ==
    /\ CallState
    /\ metered = TRUE
    /\ \/ periodic = "absent" /\ script \in ClockScripts
       \/ periodic \in {"on", "off"} /\ script = <<>>

TypeError == "TypeError"

\* lines 87-95: run_loopback has no parameter named periodic; a call that
\* passes one raises TypeError before the body runs
RejectKeyword ==
    /\ l_pc = "start"
    /\ periodic # "absent"
    /\ l_err' = TypeError
    /\ l_pc' = "returned"
    /\ UNCHANGED <<packets, processed, rtts, bytes_total, start_time, send_ts,
                   data, frame_bytes, received, packet, now, tun, tun_closes,
                   cap, cap_releases, late_use, reads, skips, shown, written,
                   printed, framerVars, captureVars, codecVars, periodic, metered, script>>

\* line 118 and _open_tun: os.open fails, or succeeds and the ioctl fails
\* (the descriptor is then not closed), or the interface is attached
OpenTun ==
    /\ l_pc = "start"
    /\ periodic = "absent"
    /\ \/ tun' = "open" /\ l_pc' = "open_cap" /\ UNCHANGED l_err
       \/ l_err' = OSError /\ l_pc' = "returned" /\ UNCHANGED tun
       \/ tun' = "open" /\ l_err' = OSError /\ l_pc' = "returned"
    /\ UNCHANGED <<packets, processed, rtts, bytes_total, start_time, send_ts,
                   data, frame_bytes, received, packet, now, tun_closes, cap,
                   cap_releases, late_use, reads, skips, shown, written,
                   printed, framerVars, captureVars, codecVars, periodic, metered, script>>

\* mutant: the transport endpoint is left open when the device does not open
OpenCapture_NoClose ==
    /\ l_pc = "open_cap"
    /\ \/ /\ cap' = "open"
          /\ l_pc' = "init"
          /\ UNCHANGED l_err
       \/ /\ l_err' = DeviceUnavailable
          /\ l_pc' = "returned"
          /\ UNCHANGED cap
    /\ UNCHANGED <<packets, processed, rtts, bytes_total, start_time, send_ts,
                   data, frame_bytes, received, packet, now, tun, tun_closes,
                   cap_releases, late_use, reads, skips, shown, written,
                   printed, framerVars, captureVars, codecVars, periodic, metered, script>>

\* lines 120-124: open the capture device; if it is not opened, close the
\* transport endpoint and raise
OpenCapture ==
    /\ l_pc = "open_cap"
    /\ \/ /\ cap' = "open"
          /\ l_pc' = "init"
          /\ UNCHANGED <<tun, tun_closes, l_err>>
       \/ /\ tun' = "closed"
          /\ tun_closes' = tun_closes + 1
          /\ l_err' = DeviceUnavailable
          /\ l_pc' = "returned"
          /\ UNCHANGED cap
    /\ UNCHANGED <<packets, processed, rtts, bytes_total, start_time, send_ts,
                   data, frame_bytes, received, packet, now, cap_releases,
                   late_use, reads, skips, shown, written, printed, framerVars, captureVars,
                   codecVars, periodic, metered, script>>

\* lines 127-130
LoopStart ==
    /\ l_pc = "init"
    /\ rtts' = <<>>
    /\ bytes_total' = 0
    /\ start_time' = TimeNow
    /\ now' = TimeNow
    /\ script' = AfterReading
    /\ processed' = 0
    /\ l_pc' = "test"
    /\ UNCHANGED <<packets, send_ts, data, frame_bytes, received, packet,
                   l_err, tun, tun_closes, cap, cap_releases, late_use,
                   reads, skips, shown, written, printed, framerVars, captureVars,
                   codecVars, periodic, metered>>

\* mutant: the loop test admits one more iteration
LoopTest_OffByOne ==
    /\ l_pc = "test"
    /\ l_pc' = IF processed <= packets THEN "send_ts" ELSE "summary"
    /\ UNCHANGED <<packets, processed, rtts, bytes_total, start_time, send_ts,
                   data, frame_bytes, received, packet, l_err, now, tun,
                   tun_closes, cap, cap_releases, late_use, reads, skips,
                   shown, written, printed, framerVars, captureVars, codecVars, periodic, metered, script>>

\* line 131: while processed < packets
LoopTest ==
    /\ l_pc = "test"
    /\ l_pc' = IF processed < packets THEN "send_ts" ELSE "summary"
    /\ UNCHANGED <<packets, processed, rtts, bytes_total, start_time, send_ts,
                   data, frame_bytes, received, packet, l_err, now, tun,
                   tun_closes, cap, cap_releases, late_use, reads, skips,
                   shown, written, printed, framerVars, captureVars, codecVars, periodic, metered, script>>

\* line 132: send_ts = time.time()
TakeSendTs ==
    /\ l_pc = "send_ts"
    /\ send_ts' = TimeNow
    /\ now' = TimeNow
    /\ script' = AfterReading
    /\ l_pc' = "read"
    /\ UNCHANGED <<packets, processed, rtts, bytes_total, start_time, data,
                   frame_bytes, received, packet, l_err, tun, tun_closes,
                   cap, cap_releases, late_use, reads, skips, shown, written,
                   printed, framerVars, captureVars, codecVars, periodic, metered>>

\* line 133: data = os_read(tun_fd, 65535), blocking
ReadPacket ==
    /\ l_pc = "read"
    /\ \/ /\ metered => reads < MaxIterations
          /\ \E pkt \in SourcePackets, d \in BlockTicks :
                /\ data' = pkt
                /\ now' = now + d
          /\ reads' = Counted(reads)
          /\ late_use' = (late_use \/ tun # "open")
          /\ l_pc' = "pack"
          /\ UNCHANGED l_err
       \/ /\ l_err' = OSError
          /\ l_pc' = "release"
          /\ UNCHANGED <<data, now, reads, late_use>>
    /\ UNCHANGED <<packets, processed, rtts, bytes_total, start_time, send_ts,
                   frame_bytes, received, packet, tun, tun_closes, cap,
                   cap_releases, skips, shown, written, printed, framerVars, captureVars,
                   codecVars, periodic, metered, script>>

\* mutant: a packet that does not fit a frame is dropped and the loop goes on
PackFrame_SkipsOversize ==
    /\ l_pc = "pack"
    /\ LET r == packet_to_frame(data)
       IN  IF r.ok
           THEN frame_bytes' = r.val /\ l_pc' = "show"
           ELSE l_pc' = "test" /\ UNCHANGED frame_bytes
    /\ UNCHANGED <<packets, processed, rtts, bytes_total, start_time, send_ts,
                   data, received, packet, l_err, now, tun, tun_closes, cap,
                   cap_releases, late_use, reads, skips, shown, written,
                   printed, framerVars, captureVars, codecVars, periodic, metered, script>>

\* line 135: frame_bytes = packet_to_frame(data)
PackFrame ==
    /\ l_pc = "pack"
    /\ LET r == packet_to_frame(data)
       IN  IF r.ok
           THEN frame_bytes' = r.val /\ l_pc' = "show" /\ UNCHANGED l_err
           ELSE l_err' = r.err /\ l_pc' = "release" /\ UNCHANGED frame_bytes
    /\ UNCHANGED <<packets, processed, rtts, bytes_total, start_time, send_ts,
                   data, received, packet, now, tun, tun_closes, cap,
                   cap_releases, late_use, reads, skips, shown, written,
                   printed, framerVars, captureVars, codecVars, periodic, metered, script>>

\* lines 137-143: the frame is converted to BGR and shown
ShowFrame ==
    /\ l_pc = "show"
    /\ \/ shown' = SwapRB(frame_bytes) /\ l_pc' = "capture" /\ UNCHANGED l_err
       \/ l_err' = CvError /\ l_pc' = "release" /\ UNCHANGED shown
    /\ UNCHANGED <<packets, processed, rtts, bytes_total, start_time, send_ts,
                   data, frame_bytes, received, packet, now, tun, tun_closes,
                   cap, cap_releases, late_use, reads, skips, written, printed,
                   framerVars, captureVars, codecVars, periodic, metered, script>>

\* mutant: an iteration without a frame is counted as processed
CaptureFrame_SkipCounted ==
    /\ l_pc = "capture"
    /\ \/ /\ \E d \in BlockTicks : now' = now + d
          /\ skips' = Counted(skips)
          /\ processed' = processed + 1
          /\ late_use' = (late_use \/ cap # "open")
          /\ l_pc' = "test"
          /\ UNCHANGED <<received, l_err>>
       \/ /\ \E arr \in CapturedArrays, d \in BlockTicks :
                /\ received' = arr
                /\ now' = now + d
          /\ late_use' = (late_use \/ cap # "open")
          /\ l_pc' = "unpack"
          /\ UNCHANGED <<skips, l_err, processed>>
       \/ /\ l_err' = CvError
          /\ l_pc' = "release"
          /\ UNCHANGED <<received, now, skips, late_use, processed>>
    /\ UNCHANGED <<packets, rtts, bytes_total, start_time, send_ts, data,
                   frame_bytes, packet, tun, tun_closes, cap, cap_releases,
                   reads, shown, written, printed, framerVars, captureVars, codecVars, periodic, metered, script>>

\* lines 145-147: ret, received = cap.read(), blocking; no frame: continue
CaptureFrame ==
    /\ l_pc = "capture"
    /\ \/ /\ \E d \in BlockTicks : now' = now + d
          /\ skips' = Counted(skips)
          /\ late_use' = (late_use \/ cap # "open")
          /\ l_pc' = "test"
          /\ UNCHANGED <<received, l_err>>
       \/ /\ \E arr \in CapturedArrays, d \in BlockTicks :
                /\ received' = arr
                /\ now' = now + d
          /\ late_use' = (late_use \/ cap # "open")
          /\ l_pc' = "unpack"
          /\ UNCHANGED <<skips, l_err>>
       \/ /\ l_err' = CvError
          /\ l_pc' = "release"
          /\ UNCHANGED <<received, now, skips, late_use>>
    /\ UNCHANGED <<packets, processed, rtts, bytes_total, start_time, send_ts,
                   data, frame_bytes, packet, tun, tun_closes, cap,
                   cap_releases, reads, shown, written, printed, framerVars, captureVars,
                   codecVars, periodic, metered, script>>

\* mutant: a frame that does not unpack is dropped like a missing frame
UnpackFrame_DropsBadFrame ==
    /\ l_pc = "unpack"
    /\ received' = SwapRB(received)
    /\ LET r == frame_to_packet(received')
       IN  IF r.ok
           THEN packet' = r.val /\ l_pc' = "write"
           ELSE l_pc' = "test" /\ UNCHANGED packet
    /\ UNCHANGED <<packets, processed, rtts, bytes_total, start_time, send_ts,
                   data, frame_bytes, l_err, now, tun, tun_closes, cap,
                   cap_releases, late_use, reads, skips, shown, written,
                   printed, framerVars, captureVars, codecVars, periodic, metered, script>>

\* lines 148-150: convert back to RGB and unpack
UnpackFrame ==
    /\ l_pc = "unpack"
    /\ received' = SwapRB(received)
    /\ LET r == frame_to_packet(received')
       IN  IF r.ok
           THEN packet' = r.val /\ l_pc' = "write" /\ UNCHANGED l_err
           ELSE l_err' = r.err /\ l_pc' = "release" /\ UNCHANGED packet
    /\ UNCHANGED <<packets, processed, rtts, bytes_total, start_time, send_ts,
                   data, frame_bytes, now, tun, tun_closes, cap, cap_releases,
                   late_use, reads, skips, shown, written, printed, framerVars, captureVars,
                   codecVars, periodic, metered, script>>

\* mutant: the packet read from the transport is written back
WritePacket_WritesData ==
    /\ l_pc = "write"
    /\ \/ /\ written' = Append(written, data)
          /\ late_use' = (late_use \/ tun # "open")
          /\ l_pc' = "append"
          /\ UNCHANGED l_err
       \/ /\ l_err' = OSError
          /\ l_pc' = "release"
          /\ UNCHANGED <<written, late_use>>
    /\ UNCHANGED <<packets, processed, rtts, bytes_total, start_time, send_ts,
                   data, frame_bytes, received, packet, now, tun, tun_closes,
                   cap, cap_releases, reads, skips, shown, printed, framerVars, captureVars,
                   codecVars, periodic, metered, script>>

\* line 152: os_write(tun_fd, packet)
WritePacket ==
    /\ l_pc = "write"
    /\ \/ /\ written' = Append(written, packet)
          /\ late_use' = (late_use \/ tun # "open")
          /\ l_pc' = "append"
          /\ UNCHANGED l_err
       \/ /\ l_err' = OSError
          /\ l_pc' = "release"
          /\ UNCHANGED <<written, late_use>>
    /\ UNCHANGED <<packets, processed, rtts, bytes_total, start_time, send_ts,
                   data, frame_bytes, received, packet, now, tun, tun_closes,
                   cap, cap_releases, reads, skips, shown, printed, framerVars, captureVars,
                   codecVars, periodic, metered, script>>

\* mutant: the sample is measured from the start of the run
AppendSample_FromStart ==
    /\ l_pc = "append"
    /\ rtts' = Append(rtts, TimeNow - start_time)
    /\ now' = TimeNow
    /\ script' = AfterReading
    /\ bytes_total' = bytes_total + Len(packet)
    /\ processed' = processed + 1
    /\ l_pc' = "test"
    /\ UNCHANGED <<packets, start_time, send_ts, data, frame_bytes, received,
                   packet, l_err, tun, tun_closes, cap, cap_releases,
                   late_use, reads, skips, shown, written, printed, framerVars, captureVars,
                   codecVars, periodic, metered>>

\* lines 153-155
AppendSample ==
    /\ l_pc = "append"
    /\ rtts' = Append(rtts, TimeNow - send_ts)
    /\ now' = TimeNow
    /\ script' = AfterReading
    /\ bytes_total' = bytes_total + Len(packet)
    /\ processed' = processed + 1
    /\ l_pc' = "test"
    /\ UNCHANGED <<packets, start_time, send_ts, data, frame_bytes, received,
                   packet, l_err, tun, tun_closes, cap, cap_releases,
                   late_use, reads, skips, shown, written, printed, framerVars, captureVars,
                   codecVars, periodic, metered>>

\* lines 157-170: the summary line; rtt_avg is rtt_sum / rtt_count and the
\* throughput is tp_bytes / tp_elapsed, both 0.0 when the divisor is 0
Summary ==
    /\ l_pc = "summary"
    /\ LET elapsed == TimeNow - start_time
       IN  printed' = Append(printed,
               [processed |-> processed,
                rtt_min   |-> IF rtts # <<>> THEN SeqMin(rtts) ELSE 0,
                rtt_sum   |-> IF rtts # <<>> THEN SeqSum(rtts) ELSE 0,
                rtt_count |-> Len(rtts),
                rtt_max   |-> IF rtts # <<>> THEN SeqMax(rtts) ELSE 0,
                tp_bytes  |-> IF elapsed > 0 THEN bytes_total ELSE 0,
                tp_elapsed |-> IF elapsed > 0 THEN elapsed ELSE 0])
    /\ now' = TimeNow
    /\ script' = AfterReading
    /\ l_pc' = "release"
    /\ UNCHANGED <<packets, processed, rtts, bytes_total, start_time, send_ts,
                   data, frame_bytes, received, packet, l_err, tun,
                   tun_closes, cap, cap_releases, late_use, reads, skips,
                   shown, written, framerVars, captureVars, codecVars, periodic, metered>>

\* lines 171-173: finally: cap.release(), cv2.destroyAllWindows()
ReleaseCapture ==
    /\ l_pc = "release"
    /\ cap' = "released"
    /\ cap_releases' = cap_releases + 1
    /\ l_pc' = "close"
    /\ UNCHANGED <<packets, processed, rtts, bytes_total, start_time, send_ts,
                   data, frame_bytes, received, packet, l_err, now, tun,
                   tun_closes, late_use, reads, skips, shown, written, printed,
                   framerVars, captureVars, codecVars, periodic, metered, script>>

\* mutant: the transport endpoint is closed on the normal path only
CloseTun_OnlyOnSuccess ==
    /\ l_pc = "close"
    /\ tun' = IF l_err = "" THEN "closed" ELSE tun
    /\ tun_closes' = IF l_err = "" THEN tun_closes + 1 ELSE tun_closes
    /\ l_pc' = "returned"
    /\ UNCHANGED <<packets, processed, rtts, bytes_total, start_time, send_ts,
                   data, frame_bytes, received, packet, l_err, now, cap,
                   cap_releases, late_use, reads, skips, shown, written,
                   printed, framerVars, captureVars, codecVars, periodic, metered, script>>

\* line 174: os_close(tun_fd); the pending exception, if any, propagates
CloseTun ==
    /\ l_pc = "close"
    /\ tun' = "closed"
    /\ tun_closes' = tun_closes + 1
    /\ l_pc' = "returned"
    /\ UNCHANGED <<packets, processed, rtts, bytes_total, start_time, send_ts,
                   data, frame_bytes, received, packet, l_err, now, cap,
                   cap_releases, late_use, reads, skips, shown, written,
                   printed, framerVars, captureVars, codecVars, periodic, metered, script>>

LoopNext ==
    \/ RejectKeyword
    \/ OpenTun
    \/ OpenCapture
    \/ LoopStart
    \/ LoopTest
    \/ TakeSendTs
    \/ ReadPacket
    \/ PackFrame
    \/ ShowFrame
    \/ CaptureFrame
    \/ UnpackFrame
    \/ WritePacket
    \/ AppendSample
    \/ Summary
    \/ ReleaseCapture
    \/ CloseTun

SpecLoop == LoopInit /\ [][LoopNext]_vars

\* a call whose number of iterations is not limited by the environment:
\* the endpoints go on answering for as long as the loop asks
LiveInit ==
    /\ CallState
    /\ metered = FALSE
    /\ periodic \in {"absent", "on", "off"}
    /\ script = <<>>

\* the single thread keeps running and every blocking call returns
SpecLoopLive == LiveInit /\ [][LoopNext]_vars /\ WF_vars(LoopNext)

\* ------------------------------------------------------------------------
\* Capture runs (kfe_codec.py 105-135): capture writes the container at
\* kfeFile, which decode then reads.  The device, the conversions and the
\* file are the environment: cap.read() delivers no frame or any array of
\* DeviceFrames, and every call inside the try block may raise.
\* cap.release() is taken not to raise.
\* ------------------------------------------------------------------------

\* values of the frames argument
CaptureCounts == (0 - 1)..MaxFrames

\* arrays cap.read() may deliver, in BGR order and already WIDTH x HEIGHT so
\* that cv2.resize leaves them as they are; the black one among them
DeviceFrames == {PatternBytes(FRAME_SIZE, p) : p \in Patterns}

StructError == "struct.error"

\* the codec variables capture and its caller leave alone
decodeLocals == <<inFile, outFile, outBefore, encoded, tamper, pos, data_size,
                  frame_count, remaining, frames_read, c_err>>

CaptureInit ==
    /\ k_pc = "start"
    /\ k_frames \in CaptureCounts
    /\ captured = 0
    /\ k_frame = <<>>
    /\ k_cap = "unopened"
    /\ k_releases = 0
    /\ k_reads = 0
    /\ k_err = ""
    /\ c_pc = "idle"
    /\ inFile = <<>>
    /\ kfeFile \in OldOutputs
    /\ kfeBefore = kfeFile
    /\ outFile = NoFile
    /\ outBefore = NoFile
    /\ encoded = <<>>
    /\ tamper = "none"
    /\ pos = 0
    /\ data_size = 0
    /\ frame_count = 0
    /\ remaining = 0
    /\ frames_read = 0
    /\ c_err = ""
    /\ FramerIdle
    /\ LoopIdle

\* lines 111-113: open the device; if it is not opened, raise
OpenDevice ==
    /\ k_pc = "start"
    /\ \/ /\ k_cap' = "open"
          /\ k_pc' = "open_out"
          /\ UNCHANGED k_err
       \/ /\ k_err' = DeviceUnavailable
          /\ k_pc' = "returned"
          /\ UNCHANGED k_cap
    /\ UNCHANGED <<k_frames, captured, k_frame, k_releases, k_reads, kfeBefore,
                   c_pc, kfeFile, decodeLocals, framerVars, loopVars>>

\* line 116: open(output_path, 'wb') creates or truncates the file
OpenOutput ==
    /\ k_pc = "open_out"
    /\ \/ /\ kfeFile' = File(<<>>)
          /\ k_pc' = "header"
          /\ UNCHANGED k_err
       \/ /\ k_err' = OSError
          /\ k_pc' = "release"
          /\ UNCHANGED kfeFile
    /\ UNCHANGED <<k_frames, captured, k_frame, k_cap, k_releases, k_reads,
                   kfeBefore, c_pc, decodeLocals, framerVars, loopVars>>

\* lines 117-118: _write_header(fout, FRAME_SIZE * frames, frames); struct
\* refuses a negative number
WriteCaptureHeader ==
    /\ k_pc = "header"
    /\ IF k_frames < 0
       THEN /\ k_err' = StructError
            /\ k_pc' = "release"
            /\ UNCHANGED <<kfeFile, captured>>
       ELSE /\ kfeFile' = File(kfeFile.bytes
                                \o write_header(FRAME_SIZE * k_frames, k_frames))
            /\ captured' = 0
            /\ k_pc' = "test"
            /\ UNCHANGED k_err
    /\ UNCHANGED <<k_frames, k_frame, k_cap, k_releases, k_reads, kfeBefore,
                   c_pc, decodeLocals, framerVars, loopVars>>

\* line 119: while captured < frames
CaptureTest ==
    /\ k_pc = "test"
    /\ k_pc' = IF captured < k_frames THEN "read" ELSE "pad"
    /\ UNCHANGED <<k_frames, captured, k_frame, k_cap, k_releases, k_reads,
                   k_err, kfeBefore, c_pc, kfeFile, decodeLocals, framerVars,
                   loopVars>>

\* lines 120-123: ret, frame = cap.read(); no frame: break
ReadDevice ==
    /\ k_pc = "read"
    /\ \/ /\ k_reads' = k_reads + 1
          /\ k_pc' = "pad"
          /\ UNCHANGED <<k_frame, k_err>>
       \/ /\ \E arr \in DeviceFrames : k_frame' = arr
          /\ k_reads' = k_reads + 1
          /\ k_pc' = "store"
          /\ UNCHANGED k_err
       \/ /\ k_err' = CvError
          /\ k_pc' = "release"
          /\ UNCHANGED <<k_frame, k_reads>>
    /\ UNCHANGED <<k_frames, captured, k_cap, k_releases, kfeBefore, c_pc,
                   kfeFile, decodeLocals, framerVars, loopVars>>

\* lines 124-128: resize, convert to RGB, write the bytes, count the frame
StoreFrame ==
    /\ k_pc = "store"
    /\ \/ /\ k_frame' = SwapRB(k_frame)
          /\ kfeFile' = File(kfeFile.bytes \o k_frame')
          /\ captured' = captured + 1
          /\ k_pc' = "test"
          /\ UNCHANGED k_err
       \/ /\ k_err' \in {CvError, OSError}
          /\ k_pc' = "release"
          /\ UNCHANGED <<k_frame, kfeFile, captured>>
    /\ UNCHANGED <<k_frames, k_cap, k_releases, k_reads, kfeBefore, c_pc,
                   decodeLocals, framerVars, loopVars>>

\* mutant: the frames the device did not deliver are left out
PadFrames_Nothing ==
    /\ k_pc = "pad"
    /\ k_pc' = "release"
    /\ UNCHANGED <<k_frames, captured, k_frame, k_cap, k_releases, k_reads,
                   k_err, kfeBefore, c_pc, kfeFile, decodeLocals, framerVars,
                   loopVars>>

\* lines 130-131: for _ in range(captured, frames): fout.write(bytes(FRAME_SIZE))
PadFrames ==
    /\ k_pc = "pad"
    /\ \/ /\ kfeFile' = File(kfeFile.bytes
                              \o Zeros(FRAME_SIZE * (k_frames - captured)))
          /\ UNCHANGED k_err
       \/ /\ captured < k_frames
          /\ k_err' = OSError
          /\ UNCHANGED kfeFile
    /\ k_pc' = "release"
    /\ UNCHANGED <<k_frames, captured, k_frame, k_cap, k_releases, k_reads,
                   kfeBefore, c_pc, decodeLocals, framerVars, loopVars>>

\* lines 132-133: finally: cap.release(); the pending exception, if any,
\* propagates
ReleaseDevice ==
    /\ k_pc = "release"
    /\ k_cap' = "released"
    /\ k_releases' = k_releases + 1
    /\ k_pc' = "returned"
    /\ UNCHANGED <<k_frames, captured, k_frame, k_reads, k_err, kfeBefore,
                   c_pc, kfeFile, decodeLocals, framerVars, loopVars>>

\* decode is called on the file capture left at its output path
DecodeCaptured ==
    /\ k_pc = "returned"
    /\ c_pc = "idle"
    /\ kfeFile.exists
    /\ c_pc' = "encoded"
    /\ UNCHANGED <<kfeFile, decodeLocals, captureVars, framerVars, loopVars>>

CaptureNext ==
    \/ OpenDevice
    \/ OpenOutput
    \/ WriteCaptureHeader
    \/ CaptureTest
    \/ ReadDevice
    \/ StoreFrame
    \/ PadFrames
    \/ ReleaseDevice
    \/ DecodeCaptured
    \/ DecodeHeader
    \/ DecodeOpenOutput
    \/ DecodeFrame
    \/ DecodeEnd

SpecCapture == CaptureInit /\ [][CaptureNext]_vars

\* ------------------------------------------------------------------------
\* Properties of the packet framer (SpecFramer)
\* ------------------------------------------------------------------------

\* the first four bytes of s read as a little-endian u32
Prefix32(s) == s[1] + 256 * s[2] + 65536 * s[3] + 16777216 * s[4]

\* C2: a packet of at most FRAME_SIZE - 4 bytes is packed into exactly
\* FRAME_SIZE bytes: its length as a little-endian u32, the packet, then only
\* zero bytes; and unpacking that frame returns the packet.
C2_PacketRoundTrip ==
    (fr_kind = "packet" /\ Len(fr_in) <= FRAME_SIZE - 4) =>
        /\ fr_pc \in {"packed", "unpacked"} =>
              /\ fr_packed.ok
              /\ Len(fr_packed.val) = FRAME_SIZE
              /\ fr_packed.val[1] = Len(fr_in) % 256
              /\ fr_packed.val[2] = (Len(fr_in) \div 256) % 256
              /\ fr_packed.val[3] = (Len(fr_in) \div 65536) % 256
              /\ fr_packed.val[4] = (Len(fr_in) \div 16777216) % 256
              /\ \A i \in 1..Len(fr_in) : fr_packed.val[4 + i] = fr_in[i]
              /\ \A i \in (4 + Len(fr_in) + 1)..FRAME_SIZE : fr_packed.val[i] = 0
        /\ fr_pc = "unpacked" => (fr_unpacked.ok /\ fr_unpacked.val = fr_in)

\* a non-zero packet of the largest accepted length has made the round trip
C2_Witness ==
    /\ fr_kind = "packet"
    /\ fr_pc = "unpacked"
    /\ Len(fr_in) = FRAME_SIZE - 4
    /\ \E i \in 1..Len(fr_in) : fr_in[i] # 0
    /\ fr_unpacked.ok
    /\ fr_unpacked.val = fr_in

\* C7: packet_to_frame fails with PacketTooLarge exactly when the packet has
\* more than FRAME_SIZE - 4 bytes, and a failure returns no frame.
C7_OversizeRejected ==
    (fr_kind = "packet" /\ fr_pc \in {"packed", "unpacked"}) =>
        /\ (~fr_packed.ok) <=> (Len(fr_in) > FRAME_SIZE - 4)
        /\ (~fr_packed.ok) => (fr_packed.err = PacketTooLarge /\ fr_packed.val = <<>>)
        /\ fr_packed.ok => Len(fr_packed.val) = FRAME_SIZE

\* a packet one byte over the limit was rejected
C7_Witness ==
    /\ fr_kind = "packet"
    /\ fr_pc = "packed"
    /\ Len(fr_in) = FRAME_SIZE - 3
    /\ ~fr_packed.ok
    /\ fr_packed.err = PacketTooLarge

\* C8: frame_to_packet fails with InvalidFrameLength when the buffer is not
\* FRAME_SIZE bytes long, whatever its prefix; otherwise with
\* CorruptedFrameHeader when the prefix exceeds FRAME_SIZE - 4; otherwise it
\* returns exactly the 'length' bytes that follow the prefix.
C8_UnpackValidation ==
    (fr_kind = "buffer" /\ fr_pc = "unpacked") =>
        IF Len(fr_in) # FRAME_SIZE
        THEN ~fr_unpacked.ok /\ fr_unpacked.err = InvalidFrameLength
        ELSE IF Prefix32(fr_in) > FRAME_SIZE - 4
             THEN ~fr_unpacked.ok /\ fr_unpacked.err = CorruptedFrameHeader
             ELSE /\ fr_unpacked.ok
                  /\ Len(fr_unpacked.val) = Prefix32(fr_in)
                  /\ \A i \in 1..Prefix32(fr_in) : fr_unpacked.val[i] = fr_in[4 + i]

\* a full-size buffer whose prefix is too large only in its second byte was
\* rejected as corrupted
C8_Witness ==
    /\ fr_kind = "buffer"
    /\ fr_pc = "unpacked"
    /\ Len(fr_in) = FRAME_SIZE
    /\ fr_in[1] = 0
    /\ fr_in[2] = 1
    /\ ~fr_unpacked.ok
    /\ fr_unpacked.err = CorruptedFrameHeader

\* ------------------------------------------------------------------------
\* Properties of the container codec (SpecCodec)
\* ------------------------------------------------------------------------

DecodeCalled == c_pc \in {"dec_open", "dec_loop", "decoded", "failed"}
DecodeReturned == c_pc \in {"decoded", "failed"}

\* C1: decoding the container encode produced never fails and leaves an
\* output byte-identical to the encode input.
C1_RoundTrip ==
    tamper = "none" =>
        /\ c_pc # "failed"
        /\ c_pc = "decoded" => (outFile.exists /\ outFile.bytes = inFile)

\* a payload of more than one frame with a padded last frame came back
C1_Witness ==
    /\ tamper = "none"
    /\ c_pc = "decoded"
    /\ Len(inFile) > FRAME_SIZE
    /\ Len(inFile) % FRAME_SIZE # 0
    /\ \E i \in 1..Len(inFile) : inFile[i] # 0
    /\ outFile.bytes = inFile

\* the least k with k * FRAME_SIZE >= n
FramesFor(n) == CHOOSE k \in 0..n : k * FRAME_SIZE >= n /\ \A j \in 0..(k - 1) : j * FRAME_SIZE < n

EncodeReturned == c_pc \notin {"idle", "encode", "enc_loop"}

\* C3: encode writes a header carrying payload_size n and frame_count
\* ceil(n / FRAME_SIZE), then that many frames of FRAME_SIZE bytes: the
\* payload followed by zero padding in the last frame only.
C3_EncodeLayout ==
    EncodeReturned =>
        LET n == Len(inFile)
            fc == FramesFor(n)
        IN  /\ Len(encoded) = HEADER_SIZE + fc * FRAME_SIZE
            /\ SubSeq(encoded, 1, 4) = MAGIC
            /\ encoded[17] + 256 * encoded[18] = n
            /\ \A i \in 19..24 : encoded[i] = 0
            /\ encoded[25] + 256 * encoded[26] = fc
            /\ \A i \in 27..28 : encoded[i] = 0
            /\ \A i \in 1..n : encoded[HEADER_SIZE + i] = inFile[i]
            /\ \A i \in (n + 1)..(fc * FRAME_SIZE) : encoded[HEADER_SIZE + i] = 0
            /\ n = 0 => Len(encoded) = HEADER_SIZE
            /\ n % FRAME_SIZE = 0 => Len(encoded) = HEADER_SIZE + n

\* encode returned for a payload that is an exact multiple of FRAME_SIZE
C3_Witness ==
    /\ c_pc = "encoded"
    /\ tamper = "none"
    /\ Len(inFile) = 2 * FRAME_SIZE
    /\ Len(encoded) = HEADER_SIZE + 2 * FRAME_SIZE
    /\ kfeFile.bytes = encoded

\* the magic and geometry fields of the container differ from the build's
BadHeaderFields ==
    SubSeq(kfeFile.bytes, 1, 16) # SubSeq(write_header(0, 0), 1, 16)

\* C4: a container shorter than the header fails with IncompleteHeader, one
\* with a wrong magic, width, height or channel depth with InvalidContainer,
\* and in both cases the output path is left as it was.
C4_HeaderRejection ==
    DecodeCalled =>
        /\ Len(kfeFile.bytes) < HEADER_SIZE =>
              (c_pc = "failed" /\ c_err = IncompleteHeader /\ outFile = outBefore)
        /\ (Len(kfeFile.bytes) >= HEADER_SIZE /\ BadHeaderFields) =>
              (c_pc = "failed" /\ c_err = InvalidContainer /\ outFile = outBefore)

\* a container with a bad header was rejected and the older output survives
C4_Witness ==
    /\ c_pc = "failed"
    /\ c_err = InvalidContainer
    /\ tamper = "geometry"
    /\ outBefore.exists
    /\ outFile = outBefore

\* the container was cut inside its frame data, the header being intact
FramesTruncated ==
    /\ tamper = "truncated"
    /\ Len(kfeFile.bytes) >= HEADER_SIZE
    /\ Len(inFile) >= 1

\* C5: decoding a container truncated anywhere in its frame data never
\* succeeds, and fails with IncompleteFrame.
C5_FrameShortfall ==
    (FramesTruncated /\ DecodeCalled) =>
        /\ c_pc # "decoded"
        /\ c_pc = "dec_loop" => frames_read < frame_count
        /\ c_pc = "failed" => c_err = IncompleteFrame

\* a two-frame container cut exactly at the frame boundary was rejected
C5_Witness ==
    /\ FramesTruncated
    /\ Len(encoded) = HEADER_SIZE + 2 * FRAME_SIZE
    /\ Len(kfeFile.bytes) = HEADER_SIZE + FRAME_SIZE
    /\ c_pc = "failed"
    /\ c_err = IncompleteFrame

\* complete frames present after the header
FramesDelivered == (Len(kfeFile.bytes) - HEADER_SIZE) \div FRAME_SIZE

\* the header is valid and declares more frames than the file holds
ClaimsMoreFrames ==
    /\ DecodeReturned
    /\ tamper \in {"counts", "truncated"}
    /\ Len(kfeFile.bytes) >= HEADER_SIZE
    /\ frame_count > FramesDelivered

\* C6 as stated: a header claiming more frames than the file delivers makes
\* decode fail with SizeMismatch.
C6_Original ==
    ClaimsMoreFrames => (c_pc = "failed" /\ c_err = SizeMismatch)

\* C6 amended: a header claiming more frames than the file delivers makes
\* decode fail with IncompleteFrame.
C6_MoreFramesThanDelivered ==
    ClaimsMoreFrames => (c_pc = "failed" /\ c_err = IncompleteFrame)

\* a rewritten header declared one frame more than the file holds
C6_Witness ==
    /\ ClaimsMoreFrames
    /\ tamper = "counts"
    /\ frame_count = FramesDelivered + 1
    /\ FramesDelivered >= 1
    /\ c_pc = "failed"
    /\ c_err = IncompleteFrame

\* ------------------------------------------------------------------------
\* Properties of the loopback loop (SpecLoop)
\* ------------------------------------------------------------------------

\* both endpoints were acquired: the try block was entered
BothAcquired == cap # "unopened"

\* C9: a run that acquired both endpoints has, when it returns (completed
\* or with an exception), released the capture device once and closed the
\* transport endpoint once, and no endpoint is used while it is not open.
C9_ReleaseOnEveryExit ==
    /\ ~late_use
    /\ cap_releases <= 1
    /\ tun_closes <= 1
    /\ (l_pc = "returned" /\ BothAcquired) =>
          /\ cap = "released"
          /\ tun = "closed"
          /\ cap_releases = 1
          /\ tun_closes = 1

\* a run that failed in os_write after a processed packet has returned with
\* both endpoints released
C9_Witness ==
    /\ l_pc = "returned"
    /\ l_err = OSError
    /\ processed = 1
    /\ Len(written) = 1
    /\ packet # <<>>
    /\ cap = "released"
    /\ tun = "closed"

\* the step of cap.read() that reports no frame
NoFrameStep == l_pc = "capture" /\ l_pc' = "test"

\* C10: an iteration in which cap.read() reports no frame goes back to the
\* loop test without an error and changes neither processed, the samples,
\* the byte counter nor the sink; at every loop test the packets written and
\* the samples number processed, and the packets read number processed plus
\* the skipped iterations.
C10_NoFrameSkip ==
    /\ [][NoFrameStep =>
            /\ l_pc' = "test"
            /\ l_err' = ""
            /\ UNCHANGED <<processed, rtts, bytes_total, written>>]_vars
    /\ [](l_pc = "test" =>
            /\ Len(written) = processed
            /\ Len(rtts) = processed
            /\ bytes_total = SeqSum([i \in 1..Len(written) |-> Len(written[i])])
            /\ reads = processed + skips)

\* the loop is at its test after one processed and one skipped iteration
C10_Witness ==
    /\ l_pc = "test"
    /\ skips = 1
    /\ processed = 1
    /\ reads = 2
    /\ Len(written) = 1
    /\ l_err = ""

FramingErrors == {PacketTooLarge, InvalidFrameLength, CorruptedFrameHeader}

\* the loop is about to pack a packet or unpack a frame that does not fit
FramingFailsNow ==
    \/ l_pc = "pack" /\ ~packet_to_frame(data).ok
    \/ l_pc = "unpack" /\ ~frame_to_packet(SwapRB(received)).ok

\* the step taken when framing fails
FailingStepIsFatal ==
    FramingFailsNow =>
        /\ l_err' \in FramingErrors
        /\ l_pc' = "release"
        /\ UNCHANGED <<processed, rtts, bytes_total, written, reads, shown, printed>>

\* the steps taken once a framing error is propagating
OnlyReleaseAfterFailure ==
    (l_err \in FramingErrors) =>
        /\ l_err' = l_err
        /\ l_pc' \in {"close", "returned"}
        /\ UNCHANGED <<processed, rtts, bytes_total, written, reads, skips>>
        /\ UNCHANGED <<shown, received, printed>>

\* C11: a failing packet_to_frame or frame_to_packet ends the loop at once
\* with that error: the iteration writes nothing and counts nothing, nothing
\* more is read, shown, captured, written or reported afterwards, and the
\* run returns with both endpoints released.
C11_FramingFailureFatal ==
    /\ [][FailingStepIsFatal]_vars
    /\ [][OnlyReleaseAfterFailure]_vars
    /\ [](l_err \in FramingErrors =>
            /\ l_pc \in {"release", "close", "returned"}
            /\ printed = <<>>
            /\ Len(written) = processed
            /\ Len(rtts) = processed)
    /\ []((l_err \in FramingErrors /\ l_pc = "returned") =>
            (cap = "released" /\ tun = "closed"))

\* a run returned with CorruptedFrameHeader after one processed packet
C11_Witness ==
    /\ l_pc = "returned"
    /\ l_err = CorruptedFrameHeader
    /\ processed = 1
    /\ reads = 2
    /\ Len(written) = 1
    /\ printed = <<>>
    /\ cap = "released"
    /\ tun = "closed"

\* the step of cv2.VideoCapture(device) that leaves the device unopened
CaptureNotAcquired == l_pc = "open_cap" /\ cap' = "unopened"

\* the step of _open_tun(tun) that raises
TransportNotAcquired == l_pc = "start" /\ periodic = "absent" /\ l_pc' # "open_cap"

\* a capture failure closes the transport endpoint once and returns
CaptureFailureCloses ==
    CaptureNotAcquired =>
        /\ l_pc' = "returned"
        /\ l_err' = DeviceUnavailable
        /\ tun = "open"
        /\ tun' = "closed"
        /\ tun_closes' = tun_closes + 1

\* a transport failure returns with the error
TransportFailureReturns ==
    TransportNotAcquired => (l_pc' = "returned" /\ l_err' = OSError)

\* C12: when the transport endpoint or the capture device is not acquired,
\* run_loopback returns the error without entering the loop: nothing is
\* read, shown, captured, written or reported; a capture failure first
\* closes the transport endpoint that was opened.
C12_AcquisitionFailure ==
    /\ [][CaptureFailureCloses]_vars
    /\ [][TransportFailureReturns]_vars
    /\ [](cap = "unopened" =>
            /\ l_pc \in {"start", "open_cap", "returned"}
            /\ reads = 0
            /\ skips = 0
            /\ shown = <<>>
            /\ received = <<>>
            /\ written = <<>>
            /\ printed = <<>>
            /\ l_pc = "returned" => l_err # "")

\* the capture device did not open and the run returned with the transport
\* endpoint closed
C12_Witness ==
    /\ l_pc = "returned"
    /\ l_err = DeviceUnavailable
    /\ cap = "unopened"
    /\ tun = "closed"
    /\ tun_closes = 1
    /\ reads = 0
    /\ written = <<>>

\* the positions of the while loop, from its test to the end of its body
InLoop == l_pc \in {"test", "send_ts", "read", "pack", "show", "capture",
                    "unpack", "write", "append"}

\* the loop ended by its test and the summary was printed
CompletedNormally ==
    /\ l_pc \in {"release", "close", "returned"}
    /\ l_err = ""
    /\ printed # <<>>

\* no packet is read once the budget is used up
NoReadPastBudget == processed >= packets => reads' = reads

\* C13 as stated: in every state of the loop 0 <= processed <= packets,
\* and processed is the number of packets written and of latency samples.
C13_Original ==
    InLoop =>
        /\ 0 <= processed
        /\ processed <= packets
        /\ Len(written) = processed
        /\ Len(rtts) = processed

\* C13, amended: processed stays between 0 and max(packets, 0) and equals
\* the number of latency samples; it equals the number of packets written
\* except between os_write and the increment, where the sink is one ahead;
\* a run that completes normally with packets >= 0 has processed = packets
\* and has written exactly packets packets; nothing is read from the
\* transport once processed has reached packets.
C13_PacketBudget ==
    /\ [](/\ 0 <= processed
          /\ processed <= (IF packets > 0 THEN packets ELSE 0)
          /\ Len(rtts) = processed
          /\ Len(written) = processed + (IF l_pc = "append" THEN 1 ELSE 0))
    /\ []((CompletedNormally /\ packets >= 0) =>
            (processed = packets /\ Len(written) = packets))
    /\ [][NoReadPastBudget]_vars

\* a run with a budget of MaxPackets completed after one skipped iteration
C13_Witness ==
    /\ CompletedNormally
    /\ l_pc = "returned"
    /\ packets = MaxPackets
    /\ processed = MaxPackets
    /\ Len(written) = MaxPackets
    /\ reads = MaxPackets + 1
    /\ skips = 1

\* each step of an iteration is entered from the step before it
StepOrder ==
    /\ l_pc' = "pack" => l_pc = "read"
    /\ l_pc' = "show" => l_pc = "pack"
    /\ l_pc' = "capture" => l_pc = "show"
    /\ l_pc' = "unpack" => l_pc = "capture"
    /\ l_pc' = "write" => (l_pc = "unpack" /\ frame_to_packet(received').ok)
    /\ l_pc' = "append" => (l_pc = "write" /\ written' = Append(written, packet))

\* C14: an iteration reads a packet and then records t_send, packs and
\* shows, acquires a frame, unpacks it, writes the packet and appends the
\* sample, in this order; t_send is taken after the transport read has
\* returned, so that when the packet is packed no time spent waiting for it
\* lies between t_send and the clock.
C14_StepOrder ==
    /\ [][StepOrder]_vars
    /\ [](l_pc \in {"pack", "show"} => send_ts = now)

RECURSIVE SumLens(_)
SumLens(ws) == IF ws = <<>> THEN 0 ELSE Len(ws[1]) + SumLens(Tail(ws))

\* the report of a completed run
Report == printed[Len(printed)]

\* the step that ends a processed iteration appends t_recv - t_send, where
\* t_recv is the clock reading of that step
OneSamplePerPacket ==
    (l_pc = "append" /\ l_pc' = "test") =>
        /\ rtts' = Append(rtts, now' - send_ts)
        /\ processed' = processed + 1

\* an iteration without a frame appends no sample
NoSampleForSkip == NoFrameStep => (rtts' = rtts /\ bytes_total' = bytes_total)

C16_ReportingMode ==
    /\ (l_pc = "returned" /\ periodic # "absent") => l_err # TypeError
    /\ (CompletedNormally /\ periodic = "on") =>
            /\ Len(printed) = processed + 1
            /\ \A k \in 1..processed : printed[k].processed = k
    /\ (CompletedNormally /\ periodic # "on") => Len(printed) = 1

OutputOpened ==
    \/ c_pc \in {"dec_loop", "decoded"}
    \/ c_pc = "failed" /\ c_err \in {IncompleteFrame, SizeMismatch}

\* payload_size as the container's header carries it
HeaderSize == kfeFile.bytes[17] + 256 * kfeFile.bytes[18]

\* a frame is consumed
FrameStep == c_pc = "dec_loop" /\ frames_read' = frames_read + 1

\* a consumed frame contributes min(remaining, FRAME_SIZE) bytes, its
\* leading ones, and nothing once the payload is complete
FrameContribution ==
    FrameStep =>
        LET n == Min(remaining, FRAME_SIZE)
            frame == SubSeq(kfeFile.bytes, pos + 1, pos + FRAME_SIZE)
        IN  /\ outFile'.bytes = outFile.bytes \o SubSeq(frame, 1, n)
            /\ remaining' = remaining - n
            /\ frames_read >= FramesFor(data_size) => outFile' = outFile

\* C18: from the opening of the output on, bytes written + remaining =
\* payload_size and 0 <= remaining <= payload_size; each frame contributes
\* its min(remaining, FRAME_SIZE) leading bytes; a successful decode writes
\* exactly payload_size bytes, none of them padding whatever the padding
\* holds, and frames beyond ceil(payload_size / FRAME_SIZE) add nothing.
C18_DecodeAccounting ==
    /\ [][FrameContribution]_vars
    /\ [](OutputOpened =>
            /\ data_size = HeaderSize
            /\ Len(outFile.bytes) + remaining = data_size
            /\ 0 <= remaining
            /\ remaining <= data_size
            /\ Len(outFile.bytes) = Min(data_size, frames_read * FRAME_SIZE)
            /\ \A i \in 1..Len(outFile.bytes) :
                  outFile.bytes[i] = kfeFile.bytes[HEADER_SIZE + i])
    /\ [](c_pc = "decoded" => Len(outFile.bytes) = data_size)
    /\ []((c_pc = "decoded" /\ tamper = "padding") =>
            (outFile.bytes = inFile /\ kfeFile.bytes # encoded))

\* a container whose padding was overwritten decoded to the encode input
C18_Witness ==
    /\ c_pc = "decoded"
    /\ tamper = "padding"
    /\ Len(inFile) > FRAME_SIZE
    /\ kfeFile.bytes[Len(kfeFile.bytes)] = 255
    /\ outFile.bytes = inFile

\* frame_count as the container's header carries it
HeaderCount == kfeFile.bytes[25] + 256 * kfeFile.bytes[26]

\* the header is valid, every declared frame is present in full and the
\* declared payload is larger than the declared frames
PayloadExceedsFrames ==
    /\ Len(kfeFile.bytes) >= HEADER_SIZE
    /\ ~BadHeaderFields
    /\ FramesDelivered >= HeaderCount
    /\ HeaderSize > HeaderCount * FRAME_SIZE

\* the step that raises SizeMismatch
RaisesSizeMismatch == c_err # SizeMismatch /\ c_err' = SizeMismatch

\* SizeMismatch is raised after the loop, all frames written
RaisedAfterAllFrames ==
    RaisesSizeMismatch =>
        /\ c_pc = "dec_loop"
        /\ frames_read = frame_count
        /\ remaining # 0
        /\ Len(outFile.bytes) = frame_count * FRAME_SIZE
        /\ outFile' = outFile

\* C19: decode fails with SizeMismatch exactly when the header is valid, all
\* frame_count frames are present in full and payload_size > frame_count *
\* FRAME_SIZE; it is raised after all frame_count frames were consumed and
\* their frame_count * FRAME_SIZE bytes written to the output.
C19_SizeMismatchCondition ==
    /\ [][RaisedAfterAllFrames]_vars
    /\ [](DecodeReturned =>
            ((c_pc = "failed" /\ c_err = SizeMismatch) <=> PayloadExceedsFrames))
    /\ [](c_err = SizeMismatch =>
            /\ frames_read = HeaderCount
            /\ outFile.exists
            /\ outFile.bytes = SubSeq(kfeFile.bytes, HEADER_SIZE + 1,
                                      HEADER_SIZE + HeaderCount * FRAME_SIZE))

\* a header declaring one byte more than its two frames hold: decode failed
\* after writing both frames
C19_Witness ==
    /\ c_pc = "failed"
    /\ c_err = SizeMismatch
    /\ tamper = "counts"
    /\ frame_count = 2
    /\ data_size = 2 * FRAME_SIZE + 1
    /\ Len(outFile.bytes) = 2 * FRAME_SIZE

\* packets read that are neither processed nor skipped
InHand == reads - processed - skips

\* a frame is captured: the array of this iteration replaces the last one
FrameCaptured == l_pc = "capture" /\ l_pc' = "unpack"

\* the sink grows only by the write step, by the packet unpacked from the
\* array captured in this iteration
WritesRecovered ==
    /\ written' # written =>
          /\ l_pc = "write"
          /\ frame_to_packet(received).ok
          /\ written' = Append(written, frame_to_packet(received).val)
    /\ l_pc' = "write" => l_pc = "unpack"
    /\ l_pc' = "unpack" => FrameCaptured
    /\ l_pc \in {"unpack", "write"} => received' \in {received, SwapRB(received)}

\* each iteration reads one fresh packet, a skipped one writes nothing
FreshRead ==
    /\ l_pc' = "pack" => (l_pc = "read" /\ reads' = reads + 1)
    /\ l_pc # "read" => reads' = reads
    /\ NoFrameStep => (written' = written /\ skips' = skips + 1)

\* C20: every packet written to the transport is the one recovered from
\* the frame captured in the same iteration; an iteration without a frame
\* writes nothing and the next one reads a fresh packet, so the number of
\* packets read is processed plus the number of skipped iterations, plus
\* at most one for an iteration under way or failed.
C20_NoBuffering ==
    /\ [][WritesRecovered]_vars
    /\ [][FreshRead]_vars
    /\ [](InHand \in {0, 1})
    /\ [](l_pc \in {"test", "send_ts", "read", "summary"} => InHand = 0)
    /\ [](CompletedNormally => reads = processed + skips)
    /\ [](Len(written) <= reads - skips)

\* after a skipped iteration a packet other than the one read was written,
\* recovered from a captured frame that carries it
C20_Witness ==
    /\ CompletedNormally
    /\ l_pc = "returned"
    /\ skips = 1
    /\ processed = 1
    /\ reads = 2
    /\ written = <<frame_to_packet(received).val>>
    /\ written # <<data>>

\* ------------------------------------------------------------------------
\* Properties of capture (SpecCapture)
\* ------------------------------------------------------------------------

\* capture returned without raising
CaptureReturned == k_pc = "returned" /\ k_err = ""

\* C21: capture(frames = N) on a device that opens leaves a header with
\* frame_count = N and payload_size = N * FRAME_SIZE followed by exactly N
\* frames: the frames captured until the device first delivers none, then
\* all-zero frames; decoding that file succeeds, with neither
\* IncompleteFrame nor SizeMismatch; the device, once opened, is released
\* exactly once on every exit path, and a device that does not open fails
\* with the output path untouched.
C21_CaptureComplete ==
    /\ CaptureReturned =>
          /\ k_frames >= 0
          /\ kfeFile.exists
          /\ Len(kfeFile.bytes) = HEADER_SIZE + k_frames * FRAME_SIZE
          /\ ~BadHeaderFields
          /\ HeaderSize = k_frames * FRAME_SIZE
          /\ HeaderCount = k_frames
          /\ read_header(kfeFile.bytes) = Return(<<k_frames * FRAME_SIZE, k_frames>>)
          /\ captured <= k_frames
          /\ k_reads = captured + (IF captured < k_frames THEN 1 ELSE 0)
          /\ \A i \in (HEADER_SIZE + captured * FRAME_SIZE + 1)..Len(kfeFile.bytes) :
                kfeFile.bytes[i] = 0
    /\ (CaptureReturned /\ DecodeReturned) =>
          /\ c_pc = "decoded"
          /\ c_err \notin {IncompleteFrame, SizeMismatch}
          /\ outFile.bytes = SubSeq(kfeFile.bytes, HEADER_SIZE + 1, Len(kfeFile.bytes))
    /\ k_releases <= 1
    /\ (k_pc = "returned" /\ k_cap # "unopened") =>
          (k_cap = "released" /\ k_releases = 1)
    /\ k_cap = "unopened" =>
          /\ kfeFile = kfeBefore
          /\ k_releases = 0
          /\ k_pc = "returned" => k_err = DeviceUnavailable

\* the device delivered one frame of two and stopped; the file decoded to
\* that frame followed by a frame of zeros
C21_Witness ==
    /\ CaptureReturned
    /\ c_pc = "decoded"
    /\ k_frames = 2
    /\ captured = 1
    /\ k_reads = 2
    /\ kfeFile.bytes[HEADER_SIZE + 1] # 0
    /\ Len(outFile.bytes) = 2 * FRAME_SIZE
    /\ SubSeq(outFile.bytes, FRAME_SIZE + 1, 2 * FRAME_SIZE) = Zeros(FRAME_SIZE)

====
